---- MODULE Spec2Model ----
(* usync: a webhook receiver (main.rs), the Dispatcher and the Reconciler      *)
(* (updater.rs: task, sort), the Discovery Task (parser.rs: task, search) and  *)
(* the wiki read path (wp.rs).                                                 *)
(*                                                                             *)
(* Strings are sequences of atomic tokens.  A token is a piece of text that the *)
(* code never looks inside ("https://github.com/", "repo", "|", " ", ...), so  *)
(* that trim, strip_prefix, split, replace and string equality are computed on *)
(* the token sequence the way the code computes them on the characters.        *)
EXTENDS Naturals, Sequences, FiniteSets, TLC

(***************************************************************************)
(* Option<T>: None is the empty sequence, Some(x) the one-element sequence *)
(***************************************************************************)
None == <<>>

Some(x) == <<x>>

(***************************************************************************)
(* str primitives used by the code                                         *)
(***************************************************************************)
IsWhitespace(c) == c \in {" ", "\t"}

RECURSIVE TrimStart(_)
TrimStart(s) ==
    IF s # <<>> /\ IsWhitespace(Head(s)) THEN TrimStart(Tail(s)) ELSE s

RECURSIVE TrimEnd(_)
TrimEnd(s) ==
    IF s # <<>> /\ IsWhitespace(s[Len(s)])
    THEN TrimEnd(SubSeq(s, 1, Len(s) - 1))
    ELSE s

Trim(s) == TrimEnd(TrimStart(s))

\* position of the first c in s, 0 when there is none (str::find)
RECURSIVE Find(_, _, _)
Find(s, c, i) ==
    IF i > Len(s) THEN 0
    ELSE IF s[i] = c THEN i
    ELSE Find(s, c, i + 1)

\* s.lines().next(): nothing for the empty string, else the text before the
\* first line break
FirstLine(s) ==
    IF s = <<>> THEN None
    ELSE LET n == Find(s, "\n", 1)
         IN  IF n = 0 THEN Some(s) ELSE Some(SubSeq(s, 1, n - 1))

StripPrefix(s, tok) ==
    IF s # <<>> /\ Head(s) = tok THEN Some(Tail(s)) ELSE None

StripSuffix(s, tok) ==
    IF s # <<>> /\ s[Len(s)] = tok THEN Some(SubSeq(s, 1, Len(s) - 1)) ELSE None

\* s.split(sep): the pieces between the separators, at least one piece
RECURSIVE Split(_, _)
Split(s, sep) ==
    LET n == Find(s, sep, 1)
    IN  IF n = 0 THEN <<s>>
        ELSE <<SubSeq(s, 1, n - 1)>> \o Split(SubSeq(s, n + 1, Len(s)), sep)

\* s.split_once(sep): the text before and after the first separator
SplitOnce(s, sep) ==
    LET n == Find(s, sep, 1)
    IN  IF n = 0 THEN None
        ELSE Some(<<SubSeq(s, 1, n - 1), SubSeq(s, n + 1, Len(s))>>)

\* s.replace(pat, with): every occurrence of the token pat replaced
RECURSIVE Replace(_, _, _)
Replace(s, pat, with) ==
    IF s = <<>> THEN <<>>
    ELSE (IF Head(s) = pat THEN with ELSE <<Head(s)>>) \o Replace(Tail(s), pat, with)

(***************************************************************************)
(* Header and parse_js_header (updater.rs)                                 *)
(***************************************************************************)
Header(repo, ref_, path) == [repo |-> repo, ref_ |-> ref_, path |-> path]

\* (variant) a key that already has a value keeps it
RECURSIVE ParseFragsKeepingFirst(_, _, _)
ParseFragsKeepingFirst(frags, i, acc) ==
    IF i > Len(frags) THEN acc
    ELSE LET kv == SplitOnce(Trim(frags[i]), "=")
         IN  IF kv = None THEN ParseFragsKeepingFirst(frags, i + 1, acc)
             ELSE LET param == Trim(kv[1][1])
                      arg   == Trim(kv[1][2])
                  IN  ParseFragsKeepingFirst(frags, i + 1,
                        IF param = <<"repo">> /\ acc.repo = None
                        THEN [acc EXCEPT !.repo = Some(arg)]
                        ELSE IF param = <<"ref">> /\ acc.ref_ = None
                        THEN [acc EXCEPT !.ref_ = Some(arg)]
                        ELSE IF param = <<"path">> /\ acc.path = None
                        THEN [acc EXCEPT !.path = Some(arg)]
                        ELSE acc)

\* the loop over the fragments: a later fragment with the same key overwrites
RECURSIVE ParseFrags(_, _, _)
ParseFrags(frags, i, acc) ==
    IF i > Len(frags) THEN acc
    ELSE LET kv == SplitOnce(Trim(frags[i]), "=")
         IN  IF kv = None THEN ParseFrags(frags, i + 1, acc)
             ELSE LET param == Trim(kv[1][1])
                      arg   == Trim(kv[1][2])
                  IN  ParseFrags(frags, i + 1,
                        IF param = <<"repo">> THEN [acc EXCEPT !.repo = Some(arg)]
                        ELSE IF param = <<"ref">> THEN [acc EXCEPT !.ref_ = Some(arg)]
                        ELSE IF param = <<"path">> THEN [acc EXCEPT !.path = Some(arg)]
                        ELSE acc)

parse_js_header(s) ==
    LET l == FirstLine(s)
    IN  IF l = None THEN None ELSE
    LET a == StripPrefix(Trim(l[1]), "//")
    IN  IF a = None THEN None ELSE
    LET b == StripPrefix(TrimStart(a[1]), "{{Wikipedia:USync")
    IN  IF b = None THEN None ELSE
    LET c == StripSuffix(b[1], "}}")
    IN  IF c = None THEN None ELSE
    LET f == ParseFrags(Split(Trim(c[1]), "|"), 1,
                        [repo |-> None, ref_ |-> None, path |-> None])
    IN  IF f.repo = None \/ f.ref_ = None \/ f.path = None THEN None
        ELSE Some(Header(f.repo[1], f.ref_[1], f.path[1]))

(***************************************************************************)
(* Texts of the model: repository URLs, refs, paths, declarations          *)
(***************************************************************************)
GitHubHost == "https://github.com/"

ContentsApi == "https://api.github.com/repos/"

RepoName == "fee1-dead/usync"

RepoGH == <<GitHubHost, RepoName>>

RepoGL == <<"https://gitlab.com/", RepoName>>

RefMain == <<"refs/heads/main">>

PathP == <<"p.js">>

PathQ == <<"q.js">>

\* the declaration line, laid out as the fixture of test_header_parse
Decl(repo, ref_, path) ==
    <<"//", " ", "{{Wikipedia:USync", " ", "|", " ", "repo", " ", "=", " ">> \o repo
    \o <<" ", "|", "ref", " ", "=", " ">> \o ref_
    \o <<" ", "|", "path", "=">> \o path \o <<"}}">>

\* the same declaration with its fragments in another order and no blanks
DeclCompact(repo, ref_, path) ==
    <<"//", "{{Wikipedia:USync", "|", "path", "=">> \o path
    \o <<"|", "ref", "=">> \o ref_ \o <<"|", "repo", "=">> \o repo \o <<"}}">>

Script(decl, body) == decl \o <<"\n", body>>

TextP1 == Script(Decl(RepoGH, RefMain, PathP), "v1")

TextP2 == Script(Decl(RepoGH, RefMain, PathP), "v2")

TextP1c == Script(DeclCompact(RepoGH, RefMain, PathP), "v1")

TextQ1 == Script(Decl(RepoGH, RefMain, PathQ), "v1")

TextQ2 == Script(Decl(RepoGH, RefMain, PathQ), "v2")

TextPlain == <<"v1">>

TextGL1 == Script(Decl(RepoGL, RefMain, PathP), "v1")

TextGL2 == Script(Decl(RepoGL, RefMain, PathP), "v2")

\* a page that declares another branch, and the file of that branch
RefDev == <<"refs/heads/dev">>

TextDev1 == Script(Decl(RepoGH, RefDev, PathP), "v1")

TextDev2 == Script(Decl(RepoGH, RefDev, PathP), "v2")

\* a page that declares another repository, and the file of that repository
RepoOther == <<GitHubHost, "fee1-dead/other">>

TextOther1 == Script(Decl(RepoOther, RefMain, PathP), "v1")

TextOther2 == Script(Decl(RepoOther, RefMain, PathP), "v2")

\* a page that declares the repository with a '/' at the end of its URL
RepoSlash == <<GitHubHost, RepoName, "/">>

TextSlash1 == Script(Decl(RepoSlash, RefMain, PathP), "v1")

TextSlash2 == Script(Decl(RepoSlash, RefMain, PathP), "v2")

\* the body GitHub answers for a file it does not have (the code reads the
\* body of any response: there is no error_for_status on this path)
NotFoundBody == <<"{\"message\":\"Not Found\"}">>

(***************************************************************************)
(* Wiki pages                                                              *)
(***************************************************************************)
TitleFooP == <<"User:Foo", "/", "p.js">>

TitleBarP == <<"User:Bar", "/", "p.js">>

TargetTitles == {TitleFooP, TitleBarP}

SyncSource(repo, ref_) == [repo |-> repo, ref_ |-> ref_]

Sync(source, target_title) == [source |-> source, target_title |-> target_title]

PageInfo(title, contentmodel, content) ==
    [title |-> title, contentmodel |-> contentmodel, content |-> content]

\* the JSON documents of the model, by the token that stands for their members
ConfigFoo == <<Sync(SyncSource(RepoGH, RefMain), TitleFooP)>>

ConfigBar == <<Sync(SyncSource(RepoGL, RefMain), TitleBarP)>>

\* User:Bar syncing the repository User:Foo syncs
ConfigBarShared == <<Sync(SyncSource(RepoGH, RefMain), TitleBarP)>>

\* User:Foo syncing the repository under its URL with a '/' at the end
ConfigFooSlash == <<Sync(SyncSource(RepoSlash, RefMain), TitleFooP)>>

\* a title that begins with User:Foo and is not under it
TitleFoobarP == <<"User:Foo", "bar", "/", "p.js">>

\* User:Foo declaring a page of its own and then a page of User:Bar
ConfigFooOutside ==
    <<Sync(SyncSource(RepoGH, RefMain), TitleFooP),
      Sync(SyncSource(RepoOther, RefMain), TitleBarP)>>

\* User:Foo declaring a page of User:Foobar
ConfigFooNear == <<Sync(SyncSource(RepoGH, RefMain), TitleFoobarP)>>

\* the pages linking to the indicator page, in the order the wiki lists them
LinksHere ==
    << PageInfo(<<"User:Foo", "/", "usync.js">>, "javascript",
                <<"// config", "\n", "{", "syncs:Foo", "}", ";">>),
       PageInfo(<<"Wikipedia:USync">>, "wikitext", <<"documentation">>),
       PageInfo(<<"User:Bar", "/", "usync.js">>, "javascript",
                <<"{", "syncs:Bar", "}">>) >>

\* the same list with User:Foo writing the repository URL with a '/' at the end
LinksHereSlash ==
    [LinksHere EXCEPT ![1].content = <<"// config", "\n", "{", "syncs:FooSlash", "}", ";">>]

\* the lists the wiki may answer with when pages declare titles outside their
\* own root, are not subpages, or lie deeper under their root
LinksHereOutside ==
    [LinksHere EXCEPT ![1].content = <<"{", "syncs:FooOutside", "}">>]

LinksHereNear ==
    [LinksHere EXCEPT ![1].content = <<"{", "syncs:FooNear", "}">>]

LinksHereRootPage ==
    [LinksHere EXCEPT ![1].title = <<"User:Foo">>]

LinksHereDeep ==
    [LinksHere EXCEPT ![1].title = <<"User:Foo", "/", "sub", "/", "usync.js">>]

LinksHereForeign ==
    [LinksHere EXCEPT ![3].content = <<"{", "syncs:Foo", "}">>]

Listings ==
    {LinksHere, LinksHereOutside, LinksHereNear, LinksHereRootPage, LinksHereDeep,
     LinksHereForeign}

\* the same list with both users syncing the same repository and ref
LinksHereShared == [LinksHere EXCEPT ![3].content = <<"{", "syncs:BarShared", "}">>]

\* the same list once User:Bar has taken the configuration off the page
LinksHereLater == [LinksHere EXCEPT ![3].content = <<"// not synced any more">>]

\* the same list with a page whose last closing brace comes before its first
\* opening brace
LinksHereBraces == [LinksHere EXCEPT ![3].content = <<"}", "syncs:Bar", "{">>]

(***************************************************************************)
(* Push events (main.rs: GitHubPush, GitHubCommit)                         *)
(***************************************************************************)
GitHubCommit(author, committer, message, added, modified) ==
    [author |-> author, committer |-> committer, message |-> message,
     added |-> added, modified |-> modified]

GitHubPush(ref_, html_url, contents_url, compare, commits) ==
    [ref_ |-> ref_, html_url |-> html_url, contents_url |-> contents_url,
     compare |-> compare, commits |-> commits]

ContentsTemplate(name) == <<ContentsApi, name, "/contents/", "{+path}">>

Kinds == {"touchP", "touchQ", "gitlab", "template"}

\* the deserialized body of a push delivery of each kind
Payload(kind) ==
    CASE kind = "touchP" ->
           GitHubPush(RefMain, RepoGH, ContentsTemplate(RepoName), <<"cmp1">>,
             <<GitHubCommit("A", "A", <<"fix">>, {}, {PathP})>>)
      [] kind = "touchQ" ->
           GitHubPush(RefMain, RepoGH, ContentsTemplate(RepoName), <<"cmp2">>,
             <<GitHubCommit("A", "B", <<"add">>, {PathQ}, {}),
               GitHubCommit("A", "B", <<"doc">>, {}, {<<"README">>})>>)
      [] kind = "gitlab" ->
           GitHubPush(RefMain, RepoGL,
             <<"https://gitlab.com/api/", RepoName, "/contents/", "{+path}">>,
             <<"cmp3">>,
             <<GitHubCommit("A", "A", <<"fix">>, {}, {PathP})>>)
      [] kind = "template" ->
           GitHubPush(RefMain, RepoGH, ContentsTemplate("fee1-dead/other"), <<"cmp4">>,
             <<GitHubCommit("A", "A", <<"fix">>, {PathP}, {})>>)
      [] kind = "unknown" ->
           GitHubPush(RefMain, <<GitHubHost, "fee1-dead/none">>,
             ContentsTemplate("fee1-dead/none"), <<"cmp5">>,
             <<GitHubCommit("A", "A", <<"fix">>, {}, {PathP})>>)
      [] kind = "slash" ->
           GitHubPush(RefMain, RepoSlash, ContentsTemplate(RepoName), <<"cmp6">>,
             <<GitHubCommit("A", "A", <<"fix">>, {}, {PathP})>>)

(***************************************************************************)
(* Bounds and program constants                                            *)
(***************************************************************************)
\* requests the webhook receiver gets in one run
MaxPushes == 2
\* commits of the push whose summary is built on its own
MaxCommits == 5
\* fragments of the declaration that is decoded on its own
MaxFrags == 4

\* mpsc::channel(10) of push events, and mpsc::channel(10) of refresh requests
QueueCap == 10

ReparseCap == 10

\* events already waiting in the SpecBacklog runs
BacklogIds == (MaxPushes + 1)..(MaxPushes + QueueCap)

EventIds == (1..MaxPushes) \cup BacklogIds

VARIABLES
    queue,      \* the ingestion channel (sort_send / cx.recv): events in flight
    pushed,     \* requests handled by the receiver so far
    resp,       \* the last response of handle
    upc,        \* where the Dispatcher (updater::task) stands
    push,       \* the event the Dispatcher holds
    lock,       \* who holds the mutex of ss.map
    map,        \* ss.map, the routing table
    reparse,    \* refresh requests waiting in the reparse channel
    retries,    \* events held by the spawned delayed-resubmission tasks
    sorts,      \* the invocations of sort (the Reconciler), ended ones included
    ppc,        \* where the Discovery Task (parser::task) stands
    idx,        \* pages the enumeration stream has yielded in this cycle
    syncs,      \* the table search is building
    wiki,       \* current content of the target pages
    files,      \* current content of the repository files
    linkshere,  \* the pages the wiki lists as linking to the indicator page
    edits,      \* the edit calls sent to the wiki, in order
    taken,      \* per event, how often the Dispatcher received it
    call        \* a call of parse_webhook and into_edit_summary on its own

vars == <<queue, pushed, resp, upc, push, lock, map, reparse, retries, sorts,
          ppc, idx, syncs, wiki, files, linkshere, edits, taken, call>>

(***************************************************************************)
(* The routing table (HashMap<SyncSource, String>)                         *)
(***************************************************************************)
EmptyMap == [k \in {} |-> <<>>]

\* HashMap::insert: a second insert under the same key replaces the value
Insert(m, k, v) == [x \in DOMAIN m \cup {k} |-> IF x = k THEN v ELSE m[x]]

\* HashMap::get(..).map(ToOwned::to_owned)
Get(m, k) == IF k \in DOMAIN m THEN Some(m[k]) ELSE None

\* (variant) the new entries written over the old table, entry by entry
StoreInto(old, res) ==
    [k \in DOMAIN old \cup DOMAIN res |-> IF k \in DOMAIN res THEN res[k] ELSE old[k]]

\* *ctx.ss.map.lock().unwrap() = res
Store(old, res) == res

(***************************************************************************)
(* search (parser.rs): what one enumerated page does to the table          *)
(***************************************************************************)
\* position of the last c in s, 0 when there is none (str::rfind)
RECURSIVE RFind(_, _, _)
RFind(s, c, i) ==
    IF i = 0 THEN 0
    ELSE IF s[i] = c THEN i
    ELSE RFind(s, c, i - 1)

\* serde_json::from_str::<Config>: a document is "{" members "}", and the
\* members the model knows are those of the Config.. fixtures
from_str(json) ==
    IF Len(json) = 3 /\ json[1] = "{" /\ json[3] = "}"
    THEN CASE json[2] = "syncs:Foo" -> Some(ConfigFoo)
           [] json[2] = "syncs:Bar" -> Some(ConfigBar)
           [] json[2] = "syncs:BarShared" -> Some(ConfigBarShared)
           [] json[2] = "syncs:FooSlash" -> Some(ConfigFooSlash)
           [] json[2] = "syncs:FooOutside" -> Some(ConfigFooOutside)
           [] json[2] = "syncs:FooNear" -> Some(ConfigFooNear)
           [] OTHER -> None
    ELSE None

\* sync.target_title.starts_with(usr) && target_title.as_bytes().get(usr.len()) == Some(b'/')
UnderUserspace(target_title, usr) ==
    /\ Len(target_title) > Len(usr)
    /\ SubSeq(target_title, 1, Len(usr)) = usr
    /\ target_title[Len(usr) + 1] = "/"

\* an entry of the table is the collection of titles updater.rs iterates; the
\* insert of parser.rs puts the one title of the sync in the place of the entry
RECURSIVE InsertAll(_, _, _)
InsertAll(m, cfg, i) ==
    IF i > Len(cfg) THEN m
    ELSE InsertAll(Insert(m, cfg[i].source, {cfg[i].target_title}), cfg, i + 1)

\* &item.content[json_start..=json_end] panics when the last '}' is before the
\* first '{'
SlicePanics(item) ==
    /\ SplitOnce(item.title, "/") # None
    /\ item.contentmodel = "javascript"
    /\ Find(item.content, "{", 1) # 0
    /\ RFind(item.content, "}", Len(item.content)) # 0
    /\ RFind(item.content, "}", Len(item.content)) + 1 < Find(item.content, "{", 1)

\* (variant) each sync inserted as soon as it is checked, so that the syncs
\* before the first one outside the userspace stay in the table
RECURSIVE InsertWhileUnder(_, _, _, _)
InsertWhileUnder(m, cfg, usr, i) ==
    IF i > Len(cfg) THEN m
    ELSE IF ~UnderUserspace(cfg[i].target_title, usr) THEN m
    ELSE InsertWhileUnder(Insert(m, cfg[i].source, {cfg[i].target_title}), cfg, usr, i + 1)

SearchItemInsertingEarly(m, item) ==
    LET split == SplitOnce(item.title, "/")
        json_start == Find(item.content, "{", 1)
        json_end == RFind(item.content, "}", Len(item.content))
    IN  IF split = None THEN m
        ELSE IF item.contentmodel # "javascript" THEN m
        ELSE IF json_start = 0 THEN m
        ELSE IF json_end = 0 THEN m
        ELSE LET usr == split[1][1]
                 cfg == from_str(SubSeq(item.content, json_start, json_end))
             IN  IF cfg = None THEN m
                 ELSE InsertWhileUnder(m, cfg[1], usr, 1)

\* the body of the 'outer loop for one item
SearchItem(m, item) ==
    LET split == SplitOnce(item.title, "/")
        json_start == Find(item.content, "{", 1)
        json_end == RFind(item.content, "}", Len(item.content))
    IN  IF split = None THEN m
        ELSE IF item.contentmodel # "javascript" THEN m
        ELSE IF json_start = 0 THEN m
        ELSE IF json_end = 0 THEN m
        ELSE LET usr == split[1][1]
                 cfg == from_str(SubSeq(item.content, json_start, json_end))
             IN  IF cfg = None THEN m
                 ELSE IF \E i \in 1..Len(cfg[1]) :
                            ~UnderUserspace(cfg[1][i].target_title, usr)
                      THEN m
                 ELSE InsertAll(m, cfg[1], 1)

(***************************************************************************)
(* sort (updater.rs): the checks between its suspension points             *)
(***************************************************************************)
\* (variant) only the modified paths looked at
TouchesModified(c, path) == path \in c.modified

\* c.added.contains(&header.path) || c.modified.contains(&header.path)
Touches(c, path) == path \in c.added \/ path \in c.modified

\* (variant) the commits left unfiltered
RetainAll(commits, path) == commits

\* push.commits.retain(..)
RECURSIVE Retain(_, _)
Retain(commits, path) ==
    IF commits = <<>> THEN <<>>
    ELSE (IF Touches(Head(commits), path) THEN <<Head(commits)>> ELSE <<>>)
         \o Retain(Tail(commits), path)

\* format!("https://api.github.com/repos/{repo}/contents/{path}") with the
\* trailing '/' of the repository name removed
FileUrl(repo, path) ==
    LET stripped == StripSuffix(repo, "/")
    IN  <<ContentsApi>> \o (IF stripped = None THEN repo ELSE stripped[1])
        \o <<"/contents/">> \o path

\* push.repository.contents_url.replace("{+path}", &header.path)
FileUrl2(contents_url, path) == Replace(contents_url, "{+path}", path)

\* (variant) the comparison of the two URLs, lines 144-147, left out
WikiChecksAnyTemplate(p, orig_src) ==
    LET parsed == parse_js_header(orig_src)
    IN  IF parsed = None THEN "couldn't parse on-wiki header"
        ELSE LET header == parsed[1]
                 repo == StripPrefix(header.repo, GitHubHost)
             IN  IF p.ref_ # header.ref_ \/ p.html_url # header.repo
                 THEN "2nd comparison failed"
                 ELSE IF Retain(p.commits, header.path) = <<>> THEN "not modified"
                 ELSE IF repo = None THEN "non github URL"
                 ELSE ""

\* (variant) the is_empty check of lines 125-128 left out
WikiChecksUnfiltered(p, orig_src) ==
    LET parsed == parse_js_header(orig_src)
    IN  IF parsed = None THEN "couldn't parse on-wiki header"
        ELSE LET header == parsed[1]
                 repo == StripPrefix(header.repo, GitHubHost)
             IN  IF p.ref_ # header.ref_ \/ p.html_url # header.repo
                 THEN "2nd comparison failed"
                 ELSE IF repo = None THEN "non github URL"
                 ELSE IF FileUrl(repo[1], header.path)
                           # FileUrl2(p.contents_url, header.path)
                 THEN "urls mismatched"
                 ELSE ""

\* (variant) the comparison of line 117 left out
WikiChecksUncompared(p, orig_src) ==
    LET parsed == parse_js_header(orig_src)
    IN  IF parsed = None THEN "couldn't parse on-wiki header"
        ELSE LET header == parsed[1]
                 repo == StripPrefix(header.repo, GitHubHost)
             IN  IF Retain(p.commits, header.path) = <<>> THEN "not modified"
                 ELSE IF repo = None THEN "non github URL"
                 ELSE IF FileUrl(repo[1], header.path)
                           # FileUrl2(p.contents_url, header.path)
                 THEN "urls mismatched"
                 ELSE ""

\* the checks of lines 111-148; "" when sort goes on to fetch the repository
WikiChecks(p, orig_src) ==
    LET parsed == parse_js_header(orig_src)
    IN  IF parsed = None THEN "couldn't parse on-wiki header"
        ELSE LET header == parsed[1]
                 repo == StripPrefix(header.repo, GitHubHost)
             IN  IF p.ref_ # header.ref_ \/ p.html_url # header.repo
                 THEN "2nd comparison failed"
                 ELSE IF Retain(p.commits, header.path) = <<>> THEN "not modified"
                 ELSE IF repo = None THEN "non github URL"
                 ELSE IF FileUrl(repo[1], header.path)
                           # FileUrl2(p.contents_url, header.path)
                 THEN "urls mismatched"
                 ELSE ""

\* (variant) the comparison of line 171 left out
NothingChangedSkipped(newtext, orig_src) == FALSE

\* newtext == orig_src
NothingChanged(newtext, orig_src) == newtext = orig_src

\* (variant) only the repository and the ref of the two headers compared
HeaderMismatchedNoPath(newtext, orig_src) ==
    LET a == parse_js_header(newtext)
        b == parse_js_header(orig_src)
    IN  a = None \/ a[1].repo # b[1].repo \/ a[1].ref_ # b[1].ref_

\* parse_js_header(&newtext) != Some(header)
HeaderMismatched(newtext, orig_src) ==
    parse_js_header(newtext) # parse_js_header(orig_src)

\* the checks of lines 171-180; "" when sort goes on to edit
RepoChecks(newtext, orig_src) ==
    IF NothingChanged(newtext, orig_src) THEN "nothing changed"
    ELSE IF HeaderMismatched(newtext, orig_src) THEN "header mismatched"
    ELSE ""

(***************************************************************************)
(* parse_webhook (updater.rs) and Push::into_edit_summary (main.rs)        *)
(***************************************************************************)
Digit == <<"0", "1", "2", "3", "4", "5", "6", "7", "8", "9">>

RECURSIVE DisplayNumber(_)
DisplayNumber(n) ==
    IF n < 10 THEN <<Digit[n + 1]>>
    ELSE DisplayNumber(n \div 10) \o <<Digit[(n % 10) + 1]>>

\* the names HashSet of parse_webhook
Names(commits) ==
    {commits[i].author : i \in 1..Len(commits)}
    \cup {commits[i].committer : i \in 1..Len(commits)}

\* names.into_iter().collect(): a HashSet yields its elements in an order the
\* program does not fix
Orders(S) ==
    {o \in [1..Cardinality(S) -> S] : \A i, j \in 1..Cardinality(S) : o[i] = o[j] => i = j}

\* the Push values parse_webhook can return
parse_webhook(p) ==
    {[commits |-> IF Len(p.commits) = 1
                  THEN [single |-> TRUE, message |-> p.commits[1].message, n |-> 1]
                  ELSE [single |-> FALSE, message |-> <<>>, n |-> Len(p.commits)],
      authors |-> o,
      url |-> p.compare] : o \in Orders(Names(p.commits))}

\* list.join(", ")
RECURSIVE Join(_, _)
Join(list, sep) ==
    IF list = <<>> THEN <<>>
    ELSE IF Len(list) = 1 THEN <<list[1]>>
    ELSE <<list[1], sep>> \o Join(Tail(list), sep)

\* <<"unreachable!()">> stands for the panic of the empty-list arm
into_edit_summary(self) ==
    LET author ==
          IF self.authors = <<>> THEN <<"unreachable!()">>
          ELSE IF Len(self.authors) <= 3 THEN Join(self.authors, ", ")
          ELSE <<self.authors[1], " and ">> \o DisplayNumber(Len(self.authors) - 1)
               \o <<" others">>
        commit ==
          IF self.commits.single THEN self.commits.message
          ELSE DisplayNumber(self.commits.n) \o <<" commits">>
    IN  author \o <<": ">> \o commit \o <<" (">> \o self.url \o <<")">>

(***************************************************************************)
(* parse_webhook and into_edit_summary on their own: the filtered push of  *)
(* sort (updater.rs, push.commits after retain) drawn from the commit      *)
(* lists of up to MaxCommits commits                                       *)
(***************************************************************************)
\* the author and committer of the commits a push is made of
Signers == {<<"A", "A">>, <<"A", "B">>, <<"C", "C">>, <<"C", "D">>}

RECURSIVE SeqsUpTo(_, _)
SeqsUpTo(S, n) ==
    IF n = 0 THEN {<<>>}
    ELSE LET shorter == SeqsUpTo(S, n - 1)
         IN  shorter \cup {Append(q, x) : q \in {r \in shorter : Len(r) = n - 1}, x \in S}

\* the pushes that reach parse_webhook: at least one commit touches the path
FilteredPushes ==
    {GitHubPush(RefMain, RepoGH, ContentsTemplate(RepoName), <<"cmp">>,
                [i \in 1..Len(q) |->
                    GitHubCommit(q[i][1], q[i][2], <<"fix">>, {}, {PathP})]) :
        q \in SeqsUpTo(Signers, MaxCommits) \ {<<>>}}

\* what handle answers: the status, and whether it got as far as a
\* deserialized push
Response(status, parsed) == [status |-> status, parsed |-> parsed]

NoCall == [stage |-> "none", p |-> <<>>, push |-> <<>>, summary |-> <<>>]

InitSummary ==
    /\ \E p \in FilteredPushes :
          call = [stage |-> "given", p |-> p, push |-> <<>>, summary |-> <<>>]
    /\ queue = <<>>
    /\ pushed = 0
    /\ resp = Response(0, FALSE)
    /\ upc = "recv"
    /\ push = [id |-> 0, kind |-> "none", retry |-> FALSE]
    /\ lock = "free"
    /\ map = <<>>
    /\ reparse = 0
    /\ retries = {}
    /\ sorts = {}
    /\ ppc = "select"
    /\ idx = 0
    /\ syncs = <<>>
    /\ wiki = <<>>
    /\ files = <<>>
    /\ linkshere = <<>>
    /\ edits = <<>>
    /\ taken = <<>>

\* let push = parse_webhook(push)
ParseWebhook ==
    /\ call.stage = "given"
    /\ \E r \in parse_webhook(call.p) :
          call' = [call EXCEPT !.stage = "parsed", !.push = r]
    /\ UNCHANGED <<queue, pushed, resp, upc, push, lock, map, reparse, retries, sorts,
                   ppc, idx, syncs, wiki, files, linkshere, edits, taken>>

\* let summary = push.into_edit_summary()
IntoEditSummary ==
    /\ call.stage = "parsed"
    /\ call' = [call EXCEPT !.stage = "done", !.summary = into_edit_summary(call.push)]
    /\ UNCHANGED <<queue, pushed, resp, upc, push, lock, map, reparse, retries, sorts,
                   ppc, idx, syncs, wiki, files, linkshere, edits, taken>>

NextSummary == ParseWebhook \/ IntoEditSummary

SpecSummary == InitSummary /\ [][NextSummary]_vars

(***************************************************************************)
(* parse_js_header on its own: contents whose first line is put together   *)
(* from up to MaxFrags fragments, the way the fixture of test_header_parse *)
(* is laid out                                                             *)
(***************************************************************************)
\* a fragment as written: key and value with the blanks around them; a
\* fragment with key None has no "="
Frag(key, value, text) == [key |-> key, value |-> value, text |-> text]

Frags ==
    { Frag(Some("repo"), RepoGH, <<"repo", "=">> \o RepoGH),
      Frag(Some("repo"), RepoGL, <<" ", "repo", "\t", "=", " ", " ">> \o RepoGL \o <<" ">>),
      Frag(Some("ref"), RefMain, <<"ref", "=">> \o RefMain),
      Frag(Some("ref"), RefMain, <<" ", "ref", " ", "=", "\t">> \o RefMain \o <<" ", "\t">>),
      Frag(Some("path"), PathP, <<"path", "=">> \o PathP),
      Frag(Some("path"), PathQ, <<"\t", "path", " ", "=", " ">> \o PathQ \o <<" ">>),
      Frag(Some("branch"), <<"dev">>, <<" ", "branch", " ", "=", " ", "dev", " ">>),
      Frag(None, <<>>, <<" ", "nocreate", " ">>) }

\* the fragments after the marker, each behind a "|"
RECURSIVE Piped(_)
Piped(fs) == IF fs = <<>> THEN <<>> ELSE <<"|">> \o Head(fs).text \o Piped(Tail(fs))

Layouts == {"fixture", "indented", "lowercase", "uncommented", "second line"}

\* the content of a page whose declaration is made of the fragments fs
Content(layout, fs) ==
    LET decl(lead, open, trail) == lead \o open \o Piped(fs) \o <<"}}">> \o trail
    IN  CASE layout = "fixture" ->
               Script(decl(<<>>, <<"//", " ", "{{Wikipedia:USync", " ">>, <<>>), "v1")
          [] layout = "indented" ->
               Script(decl(<<" ", "\t">>, <<"//", "{{Wikipedia:USync">>, <<" ">>), "v1")
          [] layout = "lowercase" ->
               Script(decl(<<>>, <<"//", " ", "{{wikipedia:usync", " ">>, <<>>), "v1")
          [] layout = "uncommented" ->
               Script(decl(<<>>, <<"{{Wikipedia:USync", " ">>, <<>>), "v1")
          [] layout = "second line" ->
               <<"\n">> \o Script(decl(<<>>, <<"//", " ", "{{Wikipedia:USync", " ">>, <<>>), "v1")

InitHeader ==
    /\ \E layout \in Layouts, fs \in SeqsUpTo(Frags, MaxFrags) :
          call = [stage |-> "content", layout |-> layout, frags |-> fs,
                  s |-> Content(layout, fs), header |-> None]
    /\ queue = <<>>
    /\ pushed = 0
    /\ resp = Response(0, FALSE)
    /\ upc = "recv"
    /\ push = [id |-> 0, kind |-> "none", retry |-> FALSE]
    /\ lock = "free"
    /\ map = <<>>
    /\ reparse = 0
    /\ retries = {}
    /\ sorts = {}
    /\ ppc = "select"
    /\ idx = 0
    /\ syncs = <<>>
    /\ wiki = <<>>
    /\ files = <<>>
    /\ linkshere = <<>>
    /\ edits = <<>>
    /\ taken = <<>>

\* parse_js_header(&orig_src)
ParseJsHeader ==
    /\ call.stage = "content"
    /\ call' = [call EXCEPT !.stage = "decoded", !.header = parse_js_header(call.s)]
    /\ UNCHANGED <<queue, pushed, resp, upc, push, lock, map, reparse, retries, sorts,
                   ppc, idx, syncs, wiki, files, linkshere, edits, taken>>

NextHeader == ParseJsHeader

SpecHeader == InitHeader /\ [][NextHeader]_vars

(***************************************************************************)
(* The collaborators                                                       *)
(***************************************************************************)
\* GET file_url?ref=..: the raw file when the repository host has it
GithubGet(file_url, ref_) ==
    LET n == Find(file_url, "/contents/", 1)
        key == Header(<<GitHubHost>> \o SubSeq(file_url, 2, n - 1), ref_,
                      SubSeq(file_url, n + 1, Len(file_url)))
    IN  IF n > 1 /\ file_url[1] = ContentsApi /\ key \in DOMAIN files
        THEN files[key]
        ELSE NotFoundBody

(***************************************************************************)
(* State after construction (main.rs: main)                                *)
(***************************************************************************)
Event(id, kind, retry) == [id |-> id, kind |-> kind, retry |-> retry]

NoPush == Event(0, "none", FALSE)

\* the retry flag of an event the receiver has just deserialized
DeserializedRetry == FALSE

FileP == Header(RepoGH, RefMain, PathP)

FileQ == Header(RepoGH, RefMain, PathQ)

FileGL == Header(RepoGL, RefMain, PathP)

\* what the target pages and the repository files hold when the run starts:
\* the content of User:Foo/p.js and of p.js in the GitHub repository
Worlds ==
    {<<TextP1, TextP1>>, <<TextP1, TextP1c>>, <<TextP1, TextQ2>>, <<TextQ1, TextP2>>,
     <<TextPlain, TextP2>>}

WikiOf(w) == [t \in TargetTitles |-> IF t = TitleFooP THEN w[1] ELSE TextGL1]

FilesOf(w) ==
    [f \in {FileP, FileQ, FileGL} |->
        IF f = FileP THEN w[2] ELSE IF f = FileQ THEN TextQ2 ELSE TextGL2]

InitCommon ==
    /\ resp = Response(0, FALSE)
    /\ upc = "recv"
    /\ push = NoPush
    /\ lock = "free"
    /\ map = EmptyMap
    /\ reparse = 0
    /\ retries = {}
    /\ sorts = {}
    /\ ppc = "select"
    /\ idx = 0
    /\ syncs = EmptyMap
    /\ edits = <<>>
    /\ call = NoCall

Init ==
    /\ InitCommon
    /\ linkshere = LinksHere
    /\ \E w \in Worlds : wiki = WikiOf(w) /\ files = FilesOf(w)
    /\ pushed = 0
    /\ queue = <<>>
    /\ taken = [i \in EventIds |-> 0]

\* a process that has fallen behind, with one request of the run to come: the
\* queue is full of events of a repository no page declares; the oldest has
\* not been dispatched yet, the others have been missed and resubmitted once
InitBacklog ==
    /\ InitCommon
    /\ linkshere \in {LinksHere, LinksHereBraces}
    /\ wiki = WikiOf(<<TextP1, TextP2>>)
    /\ files = FilesOf(<<TextP1, TextP2>>)
    /\ pushed = MaxPushes - 1
    /\ queue = [i \in 1..QueueCap |-> Event(MaxPushes + i, "unknown", i > 1)]
    /\ taken = [i \in EventIds |-> IF i > MaxPushes + 1 THEN 1 ELSE 0]

\* a process with one request of the run to come, on a wiki whose list of
\* declaring pages changes
InitRelist ==
    /\ InitCommon
    /\ linkshere = LinksHere
    /\ wiki = WikiOf(<<TextP1, TextP1c>>)
    /\ files = FilesOf(<<TextP1, TextP1c>>)
    /\ pushed = MaxPushes - 1
    /\ queue = <<>>
    /\ taken = [i \in EventIds |-> 0]

FileDev == Header(RepoGH, RefDev, PathP)

FileOther == Header(RepoOther, RefMain, PathP)

\* a process with one request of the run to come, on a wiki where the page
\* the table routes to declares, or no longer declares, the event's
\* repository and ref; the repository host has the file of each declaration
InitStale ==
    /\ InitCommon
    /\ linkshere = LinksHere
    /\ \E w \in {TextP1, TextDev1, TextOther1} : wiki = WikiOf(<<w, TextP2>>)
    /\ files = [f \in {FileP, FileQ, FileGL, FileDev, FileOther} |->
                  IF f = FileDev THEN TextDev2
                  ELSE IF f = FileOther THEN TextOther2
                  ELSE FilesOf(<<TextP1, TextP2>>)[f]]
    /\ pushed = MaxPushes - 1
    /\ queue = <<>>
    /\ taken = [i \in EventIds |-> 0]

\* a process with one request of the run to come and one event waiting, of a
\* push whose repository URL ends with '/'; User:Foo declares the repository
\* with or without that '/', on the configuration page and on the target page
InitGuard ==
    /\ InitCommon
    /\ \E w \in {<<LinksHere, TextP1, TextP2>>, <<LinksHereSlash, TextSlash1, TextSlash2>>} :
          /\ linkshere = w[1]
          /\ wiki = WikiOf(<<w[2], w[3]>>)
          /\ files = FilesOf(<<w[2], w[3]>>)
    /\ pushed = MaxPushes - 1
    /\ queue = <<Event(MaxPushes + 1, "slash", FALSE)>>
    /\ taken = [i \in EventIds |-> 0]

\* a process with one request of the run to come, on a wiki whose list of
\* declaring pages is one of Listings
InitUserspace ==
    /\ InitCommon
    /\ linkshere \in Listings
    /\ wiki = WikiOf(<<TextP1, TextP2>>)
    /\ files = FilesOf(<<TextP1, TextP2>>)
    /\ pushed = MaxPushes - 1
    /\ queue = <<>>
    /\ taken = [i \in EventIds |-> 0]

\* the entry of a source that two pages declare
TwoTitles == {TitleFooP, TitleBarP}

\* a process with one request of the run to come, whose table routes the
\* GitHub repository to two pages that both declare it
InitFanout ==
    /\ resp = Response(0, FALSE)
    /\ upc = "recv"
    /\ push = NoPush
    /\ lock = "free"
    /\ map = Insert(EmptyMap, SyncSource(RepoGH, RefMain), TwoTitles)
    /\ reparse = 0
    /\ retries = {}
    /\ sorts = {}
    /\ ppc = "select"
    /\ idx = 0
    /\ syncs = EmptyMap
    /\ edits = <<>>
    /\ call = NoCall
    /\ linkshere = LinksHereShared
    /\ wiki = [t \in TargetTitles |-> TextP1]
    /\ files = FilesOf(<<TextP1, TextP2>>)
    /\ pushed = MaxPushes - 1
    /\ queue = <<>>
    /\ taken = [i \in EventIds |-> 0]

(***************************************************************************)
(* The webhook receiver (main.rs: handle)                                  *)
(***************************************************************************)
\* the Dispatcher has panicked and dropped cx.recv: the queue is closed
Closed == upc = "panicked"

\* state.sort.try_send(push): the queue after the call, unchanged when it is
\* full or closed
TrySend(q, e) == IF Len(q) < QueueCap /\ ~Closed THEN Append(q, e) ELSE q

\* event: the X-GitHub-Event header (an Option); body: a kind of push, or
\* anything else for a body that does not deserialize
Handle(event, body) ==
    /\ pushed < MaxPushes
    /\ pushed' = pushed + 1
    /\ IF event = None THEN
            /\ resp' = Response(418, FALSE)
            /\ UNCHANGED queue
       ELSE IF event[1] # "push" THEN
            /\ resp' = Response(200, FALSE)
            /\ UNCHANGED queue
       ELSE IF body \notin Kinds THEN
            /\ resp' = Response(418, FALSE)
            /\ UNCHANGED queue
       ELSE /\ queue' = TrySend(queue, Event(pushed + 1, body, DeserializedRetry))
            /\ resp' = Response(IF queue' # queue THEN 200 ELSE 418, TRUE)
    /\ UNCHANGED <<call, upc, push, lock, map, reparse, retries, sorts, ppc, idx, syncs,
                   wiki, files, linkshere, edits, taken>>

(***************************************************************************)
(* The Dispatcher (updater.rs: task)                                       *)
(***************************************************************************)
\* the invocation of sort spawned for one title
NewSort(e, title) ==
    [id |-> e.id, kind |-> e.kind, title |-> title, pc |-> "wp_fetch", stop |-> "",
     orig_src |-> <<>>, newtext |-> <<>>, summary |-> <<>>]

\* titles.into_iter(): the titles of an entry of the table
Titles(entry) == entry

\* cx.recv.recv().await
Recv ==
    /\ upc = "recv"
    /\ queue # <<>>
    /\ push' = Head(queue)
    /\ queue' = Tail(queue)
    /\ taken' = [taken EXCEPT ![Head(queue).id] = @ + 1]
    /\ upc' = "lock"
    /\ UNCHANGED <<call, pushed, resp, lock, map, reparse, retries, sorts, ppc, idx, syncs,
                   wiki, files, linkshere, edits>>

\* cx.ss.map.lock().unwrap()
Lock ==
    /\ upc = "lock"
    /\ lock = "free"
    /\ lock' = "updater"
    /\ upc' = "get"
    /\ UNCHANGED <<call, queue, pushed, resp, push, map, reparse, retries, sorts, ppc, idx,
                   syncs, wiki, files, linkshere, edits, taken>>

\* lock.get(..), drop(lock), and on a hit the spawn of the sorts
Lookup ==
    /\ upc = "get"
    /\ lock' = "free"
    /\ LET titles == Get(map, SyncSource(Payload(push.kind).html_url,
                                         Payload(push.kind).ref_))
       IN  IF titles = None
           THEN /\ upc' = "signal"
                /\ UNCHANGED <<push, sorts>>
           ELSE /\ upc' = "recv"
                /\ push' = NoPush
                /\ sorts' = sorts \cup {NewSort(push, t) : t \in Titles(titles[1])}
    /\ UNCHANGED <<call, queue, pushed, resp, map, reparse, retries, ppc, idx, syncs, wiki,
                   files, linkshere, edits, taken>>

\* (variant) the retry decision without the guard on the flag
RequeuedWhatever(e) == {[e EXCEPT !.retry = TRUE]}

\* the retry decision: the events the miss hands to a resubmission task
Requeued(e) == IF ~e.retry THEN {[e EXCEPT !.retry = TRUE]} ELSE {}

\* cx.reparse_request.send(()).await.unwrap(), then the retry decision; the
\* send waits while the channel is full, and fails, so that unwrap panics,
\* once the Discovery Task is gone
Signal ==
    /\ upc = "signal"
    /\ IF ppc = "panicked"
       THEN /\ upc' = "panicked"
            /\ UNCHANGED <<reparse, retries>>
       ELSE /\ reparse < ReparseCap
            /\ reparse' = reparse + 1
            /\ retries' = retries \cup Requeued(push)
            /\ upc' = "recv"
    /\ push' = NoPush
    /\ UNCHANGED <<call, queue, pushed, resp, lock, map, sorts, ppc, idx, syncs, wiki,
                   files, linkshere, edits, taken>>

\* the spawned task: sleep(1 s), then let _ = sender.send(push).await; the
\* send waits while the queue is full and fails once the queue is closed
Resubmit(e) ==
    /\ e \in retries
    /\ IF Closed THEN UNCHANGED queue
       ELSE /\ Len(queue) < QueueCap
            /\ queue' = Append(queue, e)
    /\ retries' = retries \ {e}
    /\ UNCHANGED <<call, pushed, resp, upc, push, lock, map, reparse, sorts, ppc, idx,
                   syncs, wiki, files, linkshere, edits, taken>>

(***************************************************************************)
(* The Reconciler (updater.rs: sort), one action per suspension point      *)
(***************************************************************************)
\* an invocation runs until it has a reason to stop
Running(t) == t.stop = ""

\* (variant) a failed edit request sends the invocation back for a new token
EndOrRetry(t, stop) ==
    IF stop = "edit" THEN [t EXCEPT !.pc = "get_token"] ELSE [t EXCEPT !.stop = stop]

\* the invocation returns: stop is the message it logs ("done" when it logs
\* none), and pc stays at the last suspension point it reached
End(t, stop) == [t EXCEPT !.stop = stop]

Step(t, next) == sorts' = (sorts \ {t}) \cup {next}

\* the header sort holds after line 114
HeaderOf(t) == parse_js_header(t.orig_src)[1]

\* crate::wp::fetch(&ss, &title).await, then lines 111-148
WpFetch(t, ok) ==
    /\ t \in sorts
    /\ Running(t)
    /\ t.pc = "wp_fetch"
    /\ IF ~ok \/ t.title \notin DOMAIN wiki
       THEN Step(t, End(t, "couldn't fetch"))
       ELSE LET orig_src == wiki[t.title]
                stop == WikiChecks(Payload(t.kind), orig_src)
                got == [t EXCEPT !.orig_src = orig_src]
            IN  IF stop # "" THEN Step(t, End(got, stop))
                ELSE Step(t, [got EXCEPT !.pc = "gh_send"])
    /\ UNCHANGED <<call, queue, pushed, resp, upc, push, lock, map, reparse, retries, ppc,
                   idx, syncs, wiki, files, linkshere, edits, taken>>

\* ss.req.get(&file_url)...send().await
GhSend(t, ok) ==
    /\ t \in sorts
    /\ Running(t)
    /\ t.pc = "gh_send"
    /\ IF ~ok THEN Step(t, End(t, "couldn't get content from github"))
       ELSE Step(t, [t EXCEPT !.pc = "gh_text"])
    /\ UNCHANGED <<call, queue, pushed, resp, upc, push, lock, map, reparse, retries, ppc,
                   idx, syncs, wiki, files, linkshere, edits, taken>>

\* the push sort holds after the retain of line 122
Retained(t) ==
    [Payload(t.kind) EXCEPT !.commits = Retain(@, HeaderOf(t).path)]

\* res.text().await, then lines 171-184
GhText(t, ok) ==
    /\ t \in sorts
    /\ Running(t)
    /\ t.pc = "gh_text"
    /\ IF ~ok THEN Step(t, End(t, "couldn't get text from github"))
       ELSE LET header == HeaderOf(t)
                newtext ==
                  GithubGet(FileUrl(StripPrefix(header.repo, GitHubHost)[1], header.path),
                            header.ref_)
                stop == RepoChecks(newtext, t.orig_src)
                got == [t EXCEPT !.newtext = newtext]
            IN  IF stop # "" THEN Step(t, End(got, stop))
                ELSE \E p \in parse_webhook(Retained(t)) :
                        Step(t, [got EXCEPT !.summary = into_edit_summary(p),
                                            !.pc = "get_token"])
    /\ UNCHANGED <<call, queue, pushed, resp, upc, push, lock, map, reparse, retries, ppc,
                   idx, syncs, wiki, files, linkshere, edits, taken>>

\* the edit call of lines 191-205
EditCall(t) ==
    [id |-> t.id, title |-> t.title, text |-> t.newtext, summary |-> t.summary]

\* ss.client.get_token("csrf").await, then the edit request is sent
GetToken(t, ok) ==
    /\ t \in sorts
    /\ Running(t)
    /\ t.pc = "get_token"
    /\ IF ~ok
       THEN /\ Step(t, End(t, "couldn't get csrf token"))
            /\ UNCHANGED edits
       ELSE /\ Step(t, [t EXCEPT !.pc = "post"])
            /\ edits' = Append(edits, EditCall(t))
    /\ UNCHANGED <<call, queue, pushed, resp, upc, push, lock, map, reparse, retries, ppc,
                   idx, syncs, wiki, files, linkshere, taken>>

\* the answer to the edit request: saved, refused with an error status, or no
\* answer; res.text().await follows a saved edit and changes nothing
Post(t, answer) ==
    /\ t \in sorts
    /\ Running(t)
    /\ t.pc = "post"
    /\ IF answer = "saved"
       THEN /\ wiki' = [wiki EXCEPT ![t.title] = t.newtext]
            /\ Step(t, End(t, "done"))
       ELSE /\ UNCHANGED wiki
            /\ Step(t, End(t, IF answer = "status" THEN "status response for edit"
                                                    ELSE "edit"))
    /\ UNCHANGED <<call, queue, pushed, resp, upc, push, lock, map, reparse, retries, ppc,
                   idx, syncs, files, linkshere, edits, taken>>

\* tokio::time::timeout(10 s, sort(..)) elapses for t: try_join_all returns the
\* first error and drops the other invocations of the same push with it.  An
\* edit request already sent may still be saved.
Timeout(t, saved) ==
    /\ t \in sorts
    /\ Running(t)
    /\ sorts' = {IF s = t THEN End(s, "task timed out!")
                 ELSE IF s.id = t.id /\ Running(s) THEN End(s, "dropped")
                 ELSE s : s \in sorts}
    /\ IF t.pc = "post" /\ saved
       THEN wiki' = [wiki EXCEPT ![t.title] = t.newtext]
       ELSE UNCHANGED wiki
    /\ UNCHANGED <<call, queue, pushed, resp, upc, push, lock, map, reparse, retries, ppc,
                   idx, syncs, files, linkshere, edits, taken>>

(***************************************************************************)
(* The Discovery Task (parser.rs: task, search)                            *)
(***************************************************************************)
\* int.tick() of the select!: the first tick is immediate, then hourly
Tick ==
    /\ ppc \in {"select", "err"}
    /\ ppc' = "search"
    /\ UNCHANGED <<call, queue, pushed, resp, upc, push, lock, map, reparse, retries, sorts,
                   idx, syncs, wiki, files, linkshere, edits, taken>>

\* Some(_) = ctx.reparse_recv.recv() of the select!
ReparseRecv ==
    /\ ppc \in {"select", "err"}
    /\ reparse > 0
    /\ reparse' = reparse - 1
    /\ ppc' = "search"
    /\ UNCHANGED <<call, queue, pushed, resp, upc, push, lock, map, retries, sorts, idx,
                   syncs, wiki, files, linkshere, edits, taken>>

\* stream.next().await yields the next page
Item ==
    /\ ppc = "search"
    /\ idx < Len(linkshere)
    /\ IF SlicePanics(linkshere[idx + 1])
       THEN /\ ppc' = "panicked"
            /\ UNCHANGED <<idx, syncs>>
       ELSE /\ syncs' = SearchItem(syncs, linkshere[idx + 1])
            /\ idx' = idx + 1
            /\ UNCHANGED ppc
    /\ UNCHANGED <<call, queue, pushed, resp, upc, push, lock, map, reparse, retries, sorts,
                   wiki, files, linkshere, edits, taken>>

\* (variant) the table built so far is stored when the enumeration fails
ItemErrStoring ==
    /\ ppc = "search"
    /\ ppc' = "err"
    /\ map' = syncs
    /\ idx' = 0
    /\ syncs' = EmptyMap
    /\ UNCHANGED <<call, queue, pushed, resp, upc, push, lock, reparse, retries, sorts,
                   wiki, files, linkshere, edits, taken>>

\* stream.next().await yields an error: item? returns it, task drops it and
\* is back at the select! ("err": the cycle that just ended failed)
ItemErr ==
    /\ ppc = "search"
    /\ ppc' = "err"
    /\ idx' = 0
    /\ syncs' = EmptyMap
    /\ UNCHANGED <<call, queue, pushed, resp, upc, push, lock, map, reparse, retries, sorts,
                   wiki, files, linkshere, edits, taken>>

\* the stream ends: search returns Ok(syncs) and task asks for the mutex
SearchOk ==
    /\ ppc = "search"
    /\ idx = Len(linkshere)
    /\ lock = "free"
    /\ lock' = "parser"
    /\ ppc' = "store"
    /\ UNCHANGED <<call, queue, pushed, resp, upc, push, map, reparse, retries, sorts, idx,
                   syncs, wiki, files, linkshere, edits, taken>>

\* *guard = res, and the guard is dropped
Replace_ ==
    /\ ppc = "store"
    /\ map' = Store(map, syncs)
    /\ lock' = "free"
    /\ ppc' = "select"
    /\ idx' = 0
    /\ syncs' = EmptyMap
    /\ UNCHANGED <<call, queue, pushed, resp, upc, push, reparse, retries, sorts, wiki,
                   files, linkshere, edits, taken>>

(***************************************************************************)
(* The program                                                             *)
(***************************************************************************)
Requests ==
    {[event |-> None, body |-> "touchP"],
     [event |-> Some("ping"), body |-> "{}"],
     [event |-> Some("push"), body |-> "{}"]}
    \cup {[event |-> Some("push"), body |-> k] : k \in Kinds}

Next ==
    \/ \E r \in Requests : Handle(r.event, r.body)
    \/ Recv
    \/ Lock
    \/ Lookup
    \/ Signal
    \/ \E e \in retries : Resubmit(e)
    \/ \E t \in sorts, ok \in BOOLEAN : WpFetch(t, ok)
    \/ \E t \in sorts, ok \in BOOLEAN : GhSend(t, ok)
    \/ \E t \in sorts, ok \in BOOLEAN : GhText(t, ok)
    \/ \E t \in sorts, ok \in BOOLEAN : GetToken(t, ok)
    \/ \E t \in sorts, answer \in {"saved", "status", "error"} : Post(t, answer)
    \/ \E t \in sorts, saved \in BOOLEAN : Timeout(t, saved)
    \/ Tick
    \/ ReparseRecv
    \/ Item
    \/ ItemErr
    \/ SearchOk
    \/ Replace_

Spec == Init /\ [][Next]_vars

\* the wiki's answer to the linkshere query changes between two requests of
\* the enumeration
Relist ==
    /\ linkshere' \in {LinksHere, LinksHereLater} \ {linkshere}
    /\ UNCHANGED <<call, queue, pushed, resp, upc, push, lock, map, reparse, retries, sorts,
                   ppc, idx, syncs, wiki, files, edits, taken>>

NextRelist == Next \/ Relist

SpecRelist == InitRelist /\ [][NextRelist]_vars

SpecStale == InitStale /\ [][Next]_vars

SpecFanout == InitFanout /\ [][Next]_vars

SpecBacklog == InitBacklog /\ [][Next]_vars

SpecGuard == InitGuard /\ [][Next]_vars

SpecUserspace == InitUserspace /\ [][Next]_vars

(***************************************************************************)
(* What the claims speak of                                                *)
(***************************************************************************)
\* the invocations of sort spawned for event i
InvocationsOf(i) == {t \in sorts : t.id = i}

\* the edit calls made for event i and title
EditsFor(i, title) == {k \in 1..Len(edits) : edits[k].id = i /\ edits[k].title = title}

\* the copies of event i waiting in the queue, held by a resubmission task or
\* held by the Dispatcher
Copies(i) ==
    Cardinality({k \in 1..Len(queue) : queue[k].id = i})
    + Cardinality({e \in retries : e.id = i})
    + (IF push.id = i THEN 1 ELSE 0)

\* sort has sent its request to the repository host, asked for an edit token,
\* sent the edit
FetchedRepo(t) == t.pc \in {"gh_send", "gh_text", "get_token", "post"}

AskedToken(t) == t.pc \in {"get_token", "post"}

SentEdit(t) == t.pc = "post"

EditOnlyOnEqualHeaders ==
    \A k \in 1..Len(edits) : \A t \in sorts :
        (t.id = edits[k].id /\ t.title = edits[k].title) =>
            LET repo == parse_js_header(edits[k].text)
                wp == parse_js_header(t.orig_src)
            IN  /\ repo # None
                /\ wp # None
                /\ repo[1].repo = wp[1].repo
                /\ repo[1].ref_ = wp[1].ref_
                /\ repo[1].path = wp[1].path

\* an edit whose declaration line differs from the page's, with equal headers,
\* is sent
EditOnlyOnEqualHeadersWitness ==
    \E k \in 1..Len(edits) : \E t \in sorts :
        /\ t.id = edits[k].id
        /\ t.title = edits[k].title
        /\ FirstLine(edits[k].text) # FirstLine(t.orig_src)

(***************************************************************************)
(* C3: an invocation that fetched from the repository a text equal to the  *)
(* wiki content it fetched has asked for no edit token and sent no edit.   *)
(***************************************************************************)
NoEditWhenIdentical ==
    \A t \in sorts :
        (t.newtext # <<>> /\ t.newtext = t.orig_src)
        => /\ ~AskedToken(t)
           /\ EditsFor(t.id, t.title) = {}

NoEditWhenIdenticalWitness ==
    \E t \in sorts : t.stop = "nothing changed" /\ t.newtext = t.orig_src /\ t.newtext # <<>>

(***************************************************************************)
(* The end-to-end scenario of C4, read off an invocation that has returned *)
(***************************************************************************)
\* the invocation returned without a failed request and before its deadline
Completed(t) ==
    /\ t.stop # ""
    /\ t.stop \notin {"couldn't fetch", "couldn't get content from github",
                      "couldn't get text from github", "couldn't get csrf token",
                      "task timed out!", "dropped"}

\* a commit of the event adds or modifies path
EventTouches(kind, path) ==
    \E k \in 1..Len(Payload(kind).commits) :
        \/ path \in Payload(kind).commits[k].added
        \/ path \in Payload(kind).commits[k].modified

\* the page declares {R, X, p} for the event's R and X, a commit touches p,
\* and the repository holds for {R, X, p} another text declaring {R, X, p}
Scenario(t) ==
    LET wp == parse_js_header(t.orig_src)
    IN  /\ wp # None
        /\ wp[1].repo = Payload(t.kind).html_url
        /\ wp[1].ref_ = Payload(t.kind).ref_
        /\ EventTouches(t.kind, wp[1].path)
        /\ wp[1] \in DOMAIN files
        /\ files[wp[1]] # t.orig_src
        /\ parse_js_header(files[wp[1]]) = wp

\* R without its host and without a trailing slash
RepoNameOf(repo) ==
    IF repo[Len(repo)] = "/" THEN SubSeq(repo, 2, Len(repo) - 1) ELSE Tail(repo)

\* R is a GitHub URL and the event's contents-URL template, filled in with p,
\* is the contents URL of R and p
GithubScenario(t) ==
    LET wp == parse_js_header(t.orig_src)
    IN  /\ Scenario(t)
        /\ Head(wp[1].repo) = GitHubHost
        /\ <<ContentsApi>> \o RepoNameOf(wp[1].repo) \o <<"/contents/">> \o wp[1].path
             = Replace(Payload(t.kind).contents_url, "{+path}", wp[1].path)

\* one edit call for the invocation's event and title, with the repository's text
OneEdit(t) ==
    /\ Cardinality(EditsFor(t.id, t.title)) = 1
    /\ \A k \in EditsFor(t.id, t.title) :
          edits[k].text = files[parse_js_header(t.orig_src)[1]]

(***************************************************************************)
(* C4 as stated: in the scenario, for every repository URL R, exactly one  *)
(* edit with the repository's text is submitted.                           *)
(***************************************************************************)
PositiveScenarioAnyRepo ==
    \A t \in sorts : (Completed(t) /\ Scenario(t)) => OneEdit(t)

(***************************************************************************)
(* C4 amended: in the scenario, when R begins with https://github.com/ and *)
(* the event's contents-URL template agrees with R, exactly one edit with  *)
(* the repository's text is submitted for the event and the title.         *)
(***************************************************************************)
PositiveScenarioGithub ==
    \A t \in sorts : (Completed(t) /\ GithubScenario(t)) => OneEdit(t)

PositiveScenarioGithubWitness ==
    \E t \in sorts : GithubScenario(t) /\ t.stop = "done" /\ OneEdit(t)

(***************************************************************************)
(* C5: an invocation whose event has no commit adding or modifying the     *)
(* path of the wiki header sends no request to the repository and no edit. *)
(***************************************************************************)
NoFetchWhenUntouched ==
    \A t \in sorts :
        LET wp == parse_js_header(t.orig_src)
        IN  (wp # None /\ ~EventTouches(t.kind, wp[1].path))
            => /\ ~FetchedRepo(t)
               /\ EditsFor(t.id, t.title) = {}

\* the page declares the event's repository and ref, and another path
NoFetchWhenUntouchedWitness ==
    \E t \in sorts :
        LET wp == parse_js_header(t.orig_src)
        IN  /\ t.stop = "not modified"
            /\ wp[1].repo = Payload(t.kind).html_url
            /\ wp[1].ref_ = Payload(t.kind).ref_
            /\ ~EventTouches(t.kind, wp[1].path)

(***************************************************************************)
(* C6: for every event and title there is at most one invocation and at    *)
(* most one edit call, the retry of the event included; an invocation that *)
(* failed to get a token has sent no edit, and one whose edit request      *)
(* failed has sent it once.                                                *)
(***************************************************************************)
AtMostOneEdit ==
    /\ \A i \in EventIds : \A title \in TargetTitles :
          /\ Cardinality(EditsFor(i, title)) <= 1
          /\ Cardinality({t \in sorts : t.id = i /\ t.title = title}) <= 1
    /\ \A t \in sorts :
          /\ t.stop = "couldn't get csrf token" => EditsFor(t.id, t.title) = {}
          /\ t.stop \in {"edit", "status response for edit"}
                => Cardinality(EditsFor(t.id, t.title)) = 1

\* an event dispatched on its retry whose edit request failed
AtMostOneEditWitness ==
    \E t \in sorts :
        /\ t.stop \in {"edit", "status response for edit"}
        /\ taken[t.id] = 2
        /\ Cardinality(EditsFor(t.id, t.title)) = 1

(***************************************************************************)
(* The routing table over time                                             *)
(***************************************************************************)
\* the keys the Dispatcher can look up
SourceKeys ==
    {SyncSource(Payload(k).html_url, Payload(k).ref_) : k \in Kinds \cup {"unknown"}}

\* the key of the event the Dispatcher holds
PushKey == SyncSource(Payload(push.kind).html_url, Payload(push.kind).ref_)

\* the table a complete enumeration of list builds
RECURSIVE TableOf(_, _)
TableOf(list, n) ==
    IF n = 0 THEN EmptyMap ELSE SearchItem(TableOf(list, n - 1), list[n])

(***************************************************************************)
(* C7: a Discovery cycle that ends with an enumeration error, wherever in  *)
(* the list it strikes, leaves the routing table as it was; the table      *)
(* changes only in the step that stores the result of a complete           *)
(* enumeration.                                                            *)
(***************************************************************************)
FailedRefreshKeepsTable ==
    [][ /\ (ppc = "search" /\ ppc' = "err") => map' = map
        /\ map' # map => /\ ppc = "store"
                         /\ idx = Len(linkshere)
                         /\ map' = syncs ]_vars

\* a cycle has failed after the list changed, and the table of the old list
\* is still in place
FailedRefreshKeepsTableWitness ==
    /\ ppc = "err"
    /\ linkshere = LinksHereLater
    /\ map = TableOf(LinksHere, Len(LinksHere))
    /\ map # TableOf(LinksHereLater, Len(LinksHereLater))

(***************************************************************************)
(* C8: the step that stores M leaves a table whose lookup gives M[k] for   *)
(* every key of M and nothing for any other key; a lookup never overlaps   *)
(* a store, and its outcome (miss, or invocations for the entry's titles)  *)
(* is that of one whole table.                                             *)
(***************************************************************************)
AtomicReplace ==
    [][ /\ ~(upc = "get" /\ ppc = "store")
        /\ (ppc = "store" /\ ppc' # "store") =>
              \A k \in SourceKeys :
                  /\ k \in DOMAIN syncs => Get(map', k) = Some(syncs[k])
                  /\ k \notin DOMAIN syncs => Get(map', k) = None
        /\ (upc = "get" /\ upc' # "get") =>
              /\ map' = map
              /\ PushKey \notin DOMAIN map => (upc' = "signal" /\ sorts' = sorts)
              /\ PushKey \in DOMAIN map =>
                    /\ upc' = "recv"
                    /\ {t.title : t \in sorts' \ sorts} = map[PushKey] ]_vars

\* a lookup waits for the mutex while a table that drops an entry is stored
AtomicReplaceWitness ==
    /\ upc = "lock"
    /\ ppc = "store"
    /\ lock = "parser"
    /\ \E k \in DOMAIN map : k \notin DOMAIN syncs

(***************************************************************************)
(* C9 (as stated): the ingestion queue never holds more than QueueCap      *)
(* events; a request whose body is a well-formed push is, when the queue   *)
(* is full, answered with an error in the step that handles it, the queue  *)
(* left as it was, and is, when the queue has room, appended to the queue  *)
(* and answered with success, whatever the Reconciler invocations have     *)
(* come to.                                                                *)
(***************************************************************************)
Backpressure ==
    [][ /\ Len(queue') <= QueueCap
        /\ (pushed' = pushed + 1 /\ resp'.parsed) =>
              IF Len(queue) >= QueueCap
              THEN /\ resp'.status = 418
                   /\ queue' = queue
              ELSE /\ resp'.status = 200
                   /\ \E k \in Kinds : queue' = Append(queue, Event(pushed', k, FALSE))
      ]_vars

(***************************************************************************)
(* C10 (as stated): the summary is a function of the event: the distinct   *)
(* author and committer names in the order the commits name them, joined   *)
(* with ", " when they are at most 3 and otherwise the first of them       *)
(* followed by " and N others" for the N remaining, then the message of    *)
(* the only commit or "<count> commits", then the compare URL in brackets. *)
(***************************************************************************)
RECURSIVE NamesInOrder(_, _)
NamesInOrder(commits, seen) ==
    IF commits = <<>> THEN seen
    ELSE LET a == commits[1].author
             c == commits[1].committer
             s1 == IF \E i \in 1..Len(seen) : seen[i] = a THEN seen ELSE Append(seen, a)
             s2 == IF \E i \in 1..Len(s1) : s1[i] = c THEN s1 ELSE Append(s1, c)
         IN  NamesInOrder(Tail(commits), s2)

SummaryOfEvent(p) ==
    LET names == NamesInOrder(p.commits, <<>>)
        who == IF Len(names) <= 3 THEN Join(names, ", ")
               ELSE <<names[1], " and ">> \o DisplayNumber(Len(names) - 1) \o <<" others">>
        what == IF Len(p.commits) = 1 THEN p.commits[1].message
                ELSE DisplayNumber(Len(p.commits)) \o <<" commits">>
    IN  who \o <<": ">> \o what \o <<" (">> \o p.compare \o <<")">>

SummaryIsFunctionOfEvent ==
    call.stage = "done" => call.summary = SummaryOfEvent(call.p)

(***************************************************************************)
(* C11: decoding a content whose first line is the declaration comment     *)
(* gives, when each of repo, ref and path is the key of a fragment, the    *)
(* triple of the trimmed values of the last fragment of each key, whatever *)
(* the order of the fragments, the blanks around keys and values and the   *)
(* fragments with other keys or with no "="; it gives nothing when one of  *)
(* the three keys has no fragment, when the marker is not the exact        *)
(* "{{Wikipedia:USync" behind "//", or when the declaration is not on the  *)
(* first line.                                                             *)
(***************************************************************************)
\* the value of the last fragment of fs with this key, none without one
RECURSIVE LastValue(_, _)
LastValue(fs, key) ==
    IF fs = <<>> THEN None
    ELSE IF fs[Len(fs)].key = Some(key) THEN Some(fs[Len(fs)].value)
    ELSE LastValue(SubSeq(fs, 1, Len(fs) - 1), key)

Declared(layout, fs) ==
    IF /\ layout \in {"fixture", "indented"}
       /\ LastValue(fs, "repo") # None
       /\ LastValue(fs, "ref") # None
       /\ LastValue(fs, "path") # None
    THEN Some(Header(LastValue(fs, "repo")[1], LastValue(fs, "ref")[1],
                     LastValue(fs, "path")[1]))
    ELSE None

HeaderCodec ==
    call.stage = "decoded" => call.header = Declared(call.layout, call.frags)

\* a declaration with a key given twice, an unknown key and blanks has been
\* decoded to the triple of the last values
HeaderCodecWitness ==
    /\ call.stage = "decoded"
    /\ call.layout = "indented"
    /\ call.header = Some(Header(RepoGL, RefMain, PathQ))
    /\ \E i, j \in 1..Len(call.frags) :
          /\ i < j
          /\ call.frags[i].key = Some("repo")
          /\ call.frags[j].key = Some("repo")
          /\ call.frags[i].value # call.frags[j].value

(***************************************************************************)
(* C12: an invocation of sort sends an edit for its title only when the    *)
(* content it fetched from the wiki decodes to a header whose ref is the   *)
(* event's ref and whose repository is the event's repository URL; a page  *)
(* the table still routes to, but which declares another repository or     *)
(* another ref when the push is reconciled, gets no edit.                  *)
(***************************************************************************)
StaleRoutingGuard ==
    \A t \in sorts :
        EditsFor(t.id, t.title) # {} =>
            LET h == parse_js_header(t.orig_src)
            IN  /\ h # None
                /\ h[1].ref_ = Payload(t.kind).ref_
                /\ h[1].repo = Payload(t.kind).html_url

\* the table routes the event to a page that declares another branch, whose
\* file the repository has, and the invocation has stopped without an edit
StaleRoutingGuardWitness ==
    \E t \in sorts :
        /\ t.stop = "2nd comparison failed"
        /\ t.orig_src = TextDev1
        /\ SyncSource(Payload(t.kind).html_url, Payload(t.kind).ref_) \in DOMAIN map
        /\ t.title \in Titles(map[SyncSource(Payload(t.kind).html_url, Payload(t.kind).ref_)])
        /\ FileDev \in DOMAIN files
        /\ EditsFor(t.id, t.title) = {}

SignalNeverWaits ==
    (upc = "signal" /\ ppc # "panicked") => ENABLED (Signal /\ upc' = "recv")

(***************************************************************************)
(* C15 (as stated): the refresh signals the Dispatcher sends while a       *)
(* refresh is scheduled or running account together for at most one more   *)
(* refresh: when the Discovery Task takes a request and starts the         *)
(* enumeration it stands for, at most one request is left to start another *)
(* enumeration, however many signals were sent in the meantime.            *)
(***************************************************************************)
SignalsCoalesced ==
    [][ (ppc' = "search" /\ reparse' < reparse) => reparse' <= 1 ]_vars

(***************************************************************************)
(* C16 (as stated): while the Discovery Task is inside an enumeration that *)
(* does not return, the Dispatcher is never held up: whenever it holds an  *)
(* event or an event is queued, its next step (receive, lock, look up,     *)
(* signal and retry decision) can be taken without any step of the         *)
(* Discovery Task, whatever the number of events and of misses so far.     *)
(***************************************************************************)
StalledEnumerationHoldsNoDispatch ==
    ppc = "search" =>
        \/ upc = "recv" /\ queue = <<>>
        \/ ENABLED (Recv \/ Lock \/ Lookup \/ Signal)

(***************************************************************************)
(* C17 (as stated): the task that resubmits a missed event never waits for *)
(* room in the ingestion queue: its step can always be taken, and when the *)
(* queue is full that step discards the event and leaves the queue as it   *)
(* was.                                                                    *)
(***************************************************************************)
ResubmissionNeverWaits ==
    \A e \in retries :
        /\ ENABLED Resubmit(e)
        /\ Len(queue) = QueueCap => ENABLED (Resubmit(e) /\ queue' = queue)

(***************************************************************************)
(* C18 (as stated): when a cycle whose enumeration succeeded stores its    *)
(* table, every title declared by an enumerated javascript page whose      *)
(* configuration decodes (and keeps to the page's userspace) is in the     *)
(* entry of the source it is declared for; two pages that declare the same *)
(* repository and ref both have their titles in that entry.                *)
(***************************************************************************)
\* the syncs an enumerated page declares, none when search skips the page
Declares(item) ==
    LET split == SplitOnce(item.title, "/")
        json_start == Find(item.content, "{", 1)
        json_end == RFind(item.content, "}", Len(item.content))
        cfg == from_str(SubSeq(item.content, json_start, json_end))
    IN  IF \/ split = None
           \/ item.contentmodel # "javascript"
           \/ json_start = 0
           \/ json_end < json_start
           \/ cfg = None
        THEN {}
        ELSE IF \E i \in 1..Len(cfg[1]) : ~UnderUserspace(cfg[1][i].target_title, split[1][1])
        THEN {}
        ELSE {cfg[1][i] : i \in 1..Len(cfg[1])}

EveryDeclaringPageRouted ==
    [][ (ppc = "store" /\ ppc' = "select") =>
            \A n \in 1..Len(linkshere) : \A sync \in Declares(linkshere[n]) :
                /\ sync.source \in DOMAIN map'
                /\ sync.target_title \in Titles(map'[sync.source]) ]_vars

(***************************************************************************)
(* C19 (as stated): the Discovery Task has no terminal state other than    *)
(* the one it reaches when its request channel is closed: in every state   *)
(* in which the task has ended, the sending end of the channel, held by    *)
(* the Dispatcher, is gone.  (The channel is closed only when the          *)
(* Dispatcher has ended.)                                                  *)
(***************************************************************************)
\* the task of parser.rs has ended
DiscoveryEnded == ppc = "panicked"

\* cx.reparse_request, the only sender of the request channel, is dropped
ReparseClosed == upc = "panicked"

DiscoveryEndsOnlyWhenClosed == DiscoveryEnded => ReparseClosed

(***************************************************************************)
(* C20: the empty-list arm of into_edit_summary is never reached: every    *)
(* invocation of sort that has built its summary built it from a filtered  *)
(* commit list that is not empty, so the set of author and committer names *)
(* is not empty and the summary names an author.                           *)
(***************************************************************************)
\* the invocation has passed line 184
BuiltSummary(t) == t.pc \in {"get_token", "post"}

UnreachableArmNotReached ==
    \A t \in sorts :
        BuiltSummary(t)
        => /\ Retained(t).commits # <<>>
           /\ Names(Retained(t).commits) # {}
           /\ t.summary # <<>>
           /\ t.summary[1] # "unreachable!()"

\* one invocation has built a summary while another, of a push whose commits
\* do not touch the page's file, has stopped at the is_empty check
UnreachableArmNotReachedWitness ==
    /\ \E t \in sorts : BuiltSummary(t)
    /\ \E t \in sorts : t.stop = "not modified"

(***************************************************************************)
(* C21: an invocation of sort sends a request to the repository host, or   *)
(* an edit, only if the repository URL of the wiki header begins with      *)
(* https://github.com/ and the contents URL built from the header (the     *)
(* repository name without a '/' at its end, and the path) equals the      *)
(* event's contents-URL template with {+path} replaced by the path; an     *)
(* invocation that has read a page for which this fails has stopped.       *)
(***************************************************************************)
UrlGuard(t) ==
    LET wp == parse_js_header(t.orig_src)
    IN  /\ wp # None
        /\ Head(wp[1].repo) = GitHubHost
        /\ <<ContentsApi>> \o RepoNameOf(wp[1].repo) \o <<"/contents/">> \o wp[1].path
             = Replace(Payload(t.kind).contents_url, "{+path}", wp[1].path)

RepositoryUrlGuard ==
    \A t \in sorts :
        /\ (FetchedRepo(t) \/ EditsFor(t.id, t.title) # {}) => UrlGuard(t)
        /\ (t.orig_src # <<>> /\ ~UrlGuard(t))
             => (~Running(t) /\ ~FetchedRepo(t) /\ EditsFor(t.id, t.title) = {})

\* the push of the URL with a '/' at its end is fetched and edited, and an
\* invocation for the page of the GitLab repository has stopped at the guard
RepositoryUrlGuardWitness ==
    /\ \E t \in sorts :
          /\ t.kind = "slash"
          /\ t.stop = "done"
          /\ Cardinality(EditsFor(t.id, t.title)) = 1
          /\ Payload(t.kind).html_url[Len(Payload(t.kind).html_url)] = "/"
    /\ \E t \in sorts : t.stop = "non github URL"

(***************************************************************************)
(* C22: every title the table routes to was declared, for the source it is *)
(* routed from, by an enumerated page whose title contains a '/' and all   *)
(* of whose declared titles begin with the part of the page title before   *)
(* its first '/', followed by '/': a page with one declared title outside  *)
(* that root contributes none of its declarations.                         *)
(***************************************************************************)
\* the part of a page title before its first '/'
RootOf(title) == SubSeq(title, 1, Find(title, "/", 1) - 1)

\* target begins with root, and a '/' comes next
UnderRoot(target, root) ==
    /\ Len(target) > Len(root)
    /\ \A i \in 1..Len(root) : target[i] = root[i]
    /\ target[Len(root) + 1] = "/"

\* the configuration written on the page, when there is one that decodes
ConfigOn(item) ==
    LET json_start == Find(item.content, "{", 1)
        json_end == RFind(item.content, "}", Len(item.content))
    IN  IF item.contentmodel # "javascript" \/ json_start = 0 \/ json_end < json_start
        THEN None
        ELSE from_str(SubSeq(item.content, json_start, json_end))

\* the page is a subpage that declares title for source, and nothing outside
\* its root
DeclaredWithinRoot(item, source, title) ==
    LET cfg == ConfigOn(item)
    IN  /\ Find(item.title, "/", 1) # 0
        /\ cfg # None
        /\ \E i \in 1..Len(cfg[1]) :
              cfg[1][i].source = source /\ cfg[1][i].target_title = title
        /\ \A i \in 1..Len(cfg[1]) : UnderRoot(cfg[1][i].target_title, RootOf(item.title))

RoutedUnderDeclaringRoot ==
    \A source \in DOMAIN map : \A title \in Titles(map[source]) :
        \E n \in 1..Len(linkshere) : DeclaredWithinRoot(linkshere[n], source, title)

\* a cycle has stored a table with an entry, on a wiki where a subpage
\* declares a title under its root and then one outside it: the source of
\* the first is not routed
RoutedUnderDeclaringRootWitness ==
    /\ DOMAIN map # {}
    /\ \E n \in 1..Len(linkshere) :
          LET item == linkshere[n]
              cfg == ConfigOn(item)
          IN  /\ Find(item.title, "/", 1) # 0
              /\ cfg # None
              /\ Len(cfg[1]) > 1
              /\ UnderRoot(cfg[1][1].target_title, RootOf(item.title))
              /\ ~UnderRoot(cfg[1][2].target_title, RootOf(item.title))
              /\ cfg[1][1].source \notin DOMAIN map

====
